---- MODULE Spec2Model ----
(***************************************************************************)
(* Model of the call-client lifecycle of the interview platform:           *)
(*   - StreamVideoProvider (components/providers/StreamProvider.tsx)       *)
(*   - useMeetingActions   (hooks/UseMeetingActions.ts) + MeetingModal     *)
(*   - useGetcallById      (hooks/useGetcallById.ts)                       *)
(* Handles are named by the number of the effect run that constructed      *)
(* them; 0 stands for undefined / no user.                                 *)
(***************************************************************************)
EXTENDS Integers, Sequences, FiniteSets, TLC

\* ------------------------------------------------------------------ bounds
MaxEpochs == 3      \* effect runs of the provider that are explored
NumUsers == 2       \* distinct identity ids

Epochs == 1..MaxEpochs
UserIds == 1..NumUsers

VARIABLES
    provMounted,        \* the provider component instance is mounted
    isLoaded,           \* useUser().isLoaded
    user,               \* useUser().user: 0 = absent, else the identity id
    streamVideoClient,  \* useState<StreamVideoClient>(): 0 = undefined
    epoch,              \* number of the most recent effect run
    runs,               \* per effect run: closure variables and position
    disconnects,        \* per handle: number of disconnectUser() calls
    documentHidden      \* document.hidden

provVars == <<provMounted, isLoaded, user, streamVideoClient, epoch, runs,
              disconnects, documentHidden>>

VARIABLES
    actClient,      \* useStreamVideoClient() in useMeetingActions: 0 = absent
    showModal,      \* Home: showModal
    modalType,      \* Home: modalType ("none" = undefined)
    meetingURL,     \* MeetingModal: meetingURL
    sessions,       \* call sessions that exist on the video platform
    invs,           \* invocations of createInstantMeeting / joinMeeting
    skippedJoin     \* handleStart found no id in the pasted text

actVars == <<actClient, showModal, modalType, meetingURL, sessions, invs,
             skippedJoin>>

\* ------------------------------------------------------- useGetcallById
MaxLkRuns == 2      \* effect runs of the lookup hook that are explored
MaxTicks == 2       \* interval callbacks per effect run that are explored

LkRunIds == 1..MaxLkRuns
CallIds == {1, 2}       \* session ids in the route
LkHandles == {1, 2}     \* handles the provider may supply to the hook

VARIABLES
    lkMounted,      \* the component using the hook is mounted
    lkClient,       \* useStreamVideoClient() in useGetcallById: 0 = absent
    lkId,           \* the id argument of the hook
    call,           \* useState<Call>(): <<>> = undefined, else <<client, id>>
    isCallLoading,  \* useState(true)
    lkRun,          \* number of the most recent effect run of the hook
    lkRuns          \* per effect run: closure variables, timer and requests

lookVars == <<lkMounted, lkClient, lkId, call, isCallLoading, lkRun, lkRuns>>

\* ------------------------------------- Directory Sync and Role Resolver
MaxSyncs == 3           \* syncUser mutations issued in one behaviour

Devices == {1, 2}       \* browsers signed in at the same time
DirIds == {1, 2}        \* external identity ids known to the directory

VARIABLES
    dvLoaded,       \* per device: useUser().isLoaded
    dvUser,         \* per device: useUser().user (id 0 = absent)
    pendingSync,    \* per device: syncUser mutations sent, not yet applied
    userData,       \* per device: result of useQuery(getUserByClerkId)
    sentinelRan,    \* per device: a query for the empty id was executed
    table,          \* the users table of the directory
    now,            \* the directory's clock: mutations applied so far
    unhandled       \* per device: rejected promises nobody handled

dirVars == <<dvLoaded, dvUser, pendingSync, userData, sentinelRan, table, now,
             unhandled>>

\* ---------------------------------------------- Session Token Provider
MaxTokenRuns == 2       \* runs of initClient in one behaviour

TokIds == {1, 2}                \* identity ids
Secrets == {"s1", "s2", "s3"}   \* values of STREAM_SECRET_KEY

\* Two deployments that differ only in the secret key are run side by side
\* on the same inputs: every field below holds the pair (a, b).
VARIABLES
    tkSecrets,      \* the secret key of each deployment
    tkPc,           \* initClient: "idle", "requested", "responded"
    tkUser,         \* initClient: the user.id of the run in progress
    tkSrvUser,      \* the identity currentUser() gave to the last call
    tkResponse,     \* what the last streamTokenProvider call returned
    tkLog,          \* console output, server and browser
    tkToasts,       \* notifications shown
    tkRuns,         \* runs of initClient started
    tkHandle        \* the StreamVideoClient constructed last

tokVars == <<tkSecrets, tkPc, tkUser, tkSrvUser, tkResponse, tkLog, tkToasts,
             tkRuns, tkHandle>>

\* ------------------------------------------------------ Home dashboard
MaxInterviews == 4      \* interview records returned by getAllInterviews

StartTimes == 1..4      \* start times of interviews
LastNow == 3            \* the latest time at which Home is rendered

VARIABLES
    interviews,     \* Home: result of useQuery(getAllInterviews)
    dashNow         \* Home: new Date() at the current render

dashVars == <<interviews, dashNow>>

\* Frames: the state owned by the other components.
notProv == <<actVars, lookVars, dirVars, tokVars, dashVars>>
notAct == <<provVars, lookVars, dirVars, tokVars, dashVars>>
notLook == <<provVars, actVars, dirVars, tokVars, dashVars>>
notDir == <<provVars, actVars, lookVars, tokVars, dashVars>>
notTok == <<provVars, actVars, lookVars, dirVars, dashVars>>
notDash == <<provVars, actVars, lookVars, dirVars, tokVars>>

\* ------------------------------------------------- StreamVideoProvider
\* An effect run that has not started yet.
NoRun == [pc |-> "unused", mounted |-> FALSE, client |-> 0, uid |-> 0,
          toasts |-> 0, sets |-> 0]

\* initClient() up to its first suspension point.
StartRun(l, u) ==
    IF ~l \/ u = 0
    THEN [pc |-> "waiting", mounted |-> TRUE, client |-> 0, uid |-> u,
          toasts |-> 0, sets |-> 0]
    ELSE [pc |-> "awaitToken", mounted |-> TRUE, client |-> 0, uid |-> u,
          toasts |-> 0, sets |-> 0]

\* Variant without the mounted check after the token arrives.
StillMounted_Always(r) == TRUE

\* "Only proceed if still mounted"
StillMounted(r) == r.mounted

\* Variant that constructs the handle but never publishes it.
PublishGuard_Never(r) == FALSE

\* "Set the client only after successful initialization"
PublishGuard(r) == r.mounted

\* Variant of the catch block that always raises the toast.
CatchToast_Always(r) == 1

\* catch block: the toast is raised only while mounted
CatchToast(r) == IF r.mounted THEN 1 ELSE 0

\* cleanup: if (client && !document.hidden)
ShouldDisconnect(c, hidden) == c # 0 /\ ~hidden

\* The cleanup function of effect run e.
CleanupRuns(rs, e) == [rs EXCEPT ![e].mounted = FALSE]

CleanupDisc(d, rs, e, hidden) ==
    IF ShouldDisconnect(rs[e].client, hidden)
    THEN [d EXCEPT ![rs[e].client] = @ + 1]
    ELSE d

\* What the provider renders.
Render ==
    IF ~isLoaded THEN "children"
    ELSE IF user = 0 THEN "children"
    ELSE IF streamVideoClient = 0 THEN "loader"
    ELSE "video"

\* useStreamVideoClient() as seen by a rendered descendant.
CtxClient == IF Render = "video" THEN streamVideoClient ELSE 0

ProvInit ==
    /\ provMounted = TRUE
    /\ isLoaded = FALSE
    /\ user = 0
    /\ streamVideoClient = 0
    /\ epoch = 1
    /\ runs = [e \in Epochs |-> IF e = 1 THEN StartRun(FALSE, 0) ELSE NoRun]
    /\ disconnects = [e \in Epochs |-> 0]
    /\ documentHidden = FALSE

\* useUser() delivers a new (user, isLoaded) pair: identity loaded, sign-in,
\* sign-out, switch of identity, or a fresh user object for the same id.
\* The dependency array changed, so the previous cleanup runs, then the effect.
IdentityChange(u) ==
    /\ provMounted
    /\ epoch < MaxEpochs
    /\ (isLoaded /\ user = 0) => u # 0
    /\ isLoaded' = TRUE
    /\ user' = u
    /\ epoch' = epoch + 1
    /\ runs' = [CleanupRuns(runs, epoch) EXCEPT ![epoch + 1] = StartRun(TRUE, u)]
    /\ disconnects' = CleanupDisc(disconnects, runs, epoch, documentHidden)
    /\ UNCHANGED <<provMounted, streamVideoClient, documentHidden>>
    /\ UNCHANGED notProv

\* The provider is unmounted: the cleanup of the current run executes and
\* the component state is dropped.
Unmount ==
    /\ provMounted
    /\ provMounted' = FALSE
    /\ streamVideoClient' = 0
    /\ runs' = CleanupRuns(runs, epoch)
    /\ disconnects' = CleanupDisc(disconnects, runs, epoch, documentHidden)
    /\ UNCHANGED <<isLoaded, user, epoch, documentHidden>>
    /\ UNCHANGED notProv

\* A new provider instance is mounted: fresh state, first effect run.
Mount ==
    /\ ~provMounted
    /\ epoch < MaxEpochs
    /\ provMounted' = TRUE
    /\ streamVideoClient' = 0
    /\ epoch' = epoch + 1
    /\ runs' = [runs EXCEPT ![epoch + 1] = StartRun(isLoaded, user)]
    /\ UNCHANGED <<isLoaded, user, disconnects, documentHidden>>
    /\ UNCHANGED notProv

\* streamTokenProvider() resolved for run e; throws says whether
\* new StreamVideoClient(...) throws.
TokenResolve(e, throws) ==
    /\ runs[e].pc = "awaitToken"
    /\ IF ~StillMounted(runs[e])
       THEN /\ runs' = [runs EXCEPT ![e].pc = "aborted"]
            /\ UNCHANGED streamVideoClient
       ELSE IF throws
       THEN /\ runs' = [runs EXCEPT ![e].pc = "caughtConstruct",
                                    ![e].toasts = @ + CatchToast(runs[e])]
            /\ UNCHANGED streamVideoClient
       ELSE IF PublishGuard(runs[e])
       THEN /\ runs' = [runs EXCEPT ![e].pc = "published",
                                    ![e].client = e,
                                    ![e].sets = @ + 1]
            /\ streamVideoClient' = IF provMounted THEN e ELSE streamVideoClient
       ELSE /\ runs' = [runs EXCEPT ![e].pc = "constructed",
                                    ![e].client = e]
            /\ UNCHANGED streamVideoClient
    /\ UNCHANGED <<provMounted, isLoaded, user, epoch, disconnects,
                   documentHidden>>
    /\ UNCHANGED notProv

\* streamTokenProvider() rejected for run e.
TokenReject(e) ==
    /\ runs[e].pc = "awaitToken"
    /\ runs' = [runs EXCEPT ![e].pc = IF runs[e].mounted THEN "caughtToken"
                                                            ELSE "caughtSilent",
                            ![e].toasts = @ + CatchToast(runs[e])]
    /\ UNCHANGED <<provMounted, isLoaded, user, streamVideoClient, epoch,
                   disconnects, documentHidden>>
    /\ UNCHANGED notProv

\* The tab is hidden or shown.
VisibilityChange ==
    /\ documentHidden' = ~documentHidden
    /\ UNCHANGED <<provMounted, isLoaded, user, streamVideoClient, epoch,
                   runs, disconnects>>
    /\ UNCHANGED notProv

ProvNext ==
    \/ \E u \in {0} \cup UserIds : IdentityChange(u)
    \/ Unmount
    \/ Mount
    \/ \E e \in Epochs, throws \in BOOLEAN : TokenResolve(e, throws)
    \/ \E e \in Epochs : TokenReject(e)
    \/ VisibilityChange

\* ------------------------------------------------------------ observers
Constructed == {e \in Epochs : runs[e].client # 0}
Live == {e \in Constructed : disconnects[e] = 0}

\* ------------------------------------- useMeetingActions / MeetingModal
MaxInvocations == 2     \* invocations of the meeting actions explored

\* Texts pasted into the join dialog: empty, blank, a bare id, a link, a link
\* ending in "/", a link whose last segment is blank.
URLs == { <<>>,
          <<" ">>,
          <<"a">>,
          <<"b">>,
          <<"m", "/", "a">>,
          <<"m", "/", "b">>,
          <<"a", "/">>,
          <<" ", "/", " ">> }

MsgNotInit == "Video service not initialized. Please try again in a moment."
MsgConnNotReady == "Connection not ready. Please try again in a moment."
MsgCreateFailed == "Failed to create meeting. Please try again."
MsgCreated == "Meeting Created"

Needle == <<"t", "o", "k", "e", "n">>

\* Values a rejected getOrCreate can throw: Error objects or other values,
\* with a message text.
ErrMessages == { <<"n", "o", " ", "t", "o", "k", "e", "n", "!">>,
                 <<"T", "o", "k", "e", "n">>,
                 <<"t", "o", "k", "e">> }
Errors == [isError : BOOLEAN, message : ErrMessages]

\* String.prototype.includes
Includes(s, sub) ==
    \E i \in 0..(Len(s) - Len(sub)) : SubSeq(s, i + 1, i + Len(sub)) = sub

\* String.prototype.trim
Trim(s) ==
    LET keep == {i \in 1..Len(s) : s[i] # " "}
    IN IF keep = {} THEN <<>>
       ELSE SubSeq(s, CHOOSE i \in keep : \A j \in keep : i <= j,
                      CHOOSE i \in keep : \A j \in keep : j <= i)

\* Variant of the id extraction that takes the text before the first "/".
LastSegment_First(s) ==
    LET slashes == {i \in 1..Len(s) : s[i] = "/"}
    IN IF slashes = {} THEN s
       ELSE SubSeq(s, 1, (CHOOSE i \in slashes : \A j \in slashes : i <= j) - 1)

\* meetingURL.split("/").pop()
LastSegment(s) ==
    LET slashes == {i \in 1..Len(s) : s[i] = "/"}
    IN IF slashes = {} THEN s
       ELSE SubSeq(s, (CHOOSE i \in slashes : \A j \in slashes : j <= i) + 1,
                      Len(s))

\* crypto.randomUUID(): the n-th identifier generated
Uuid(n) == <<"uuid", ToString(n)>>

\* `/meetings/${id}`
MeetingPath(id) == <<"/", "meetings", "/">> \o id

\* Variant that reports every failure with the same message.
CreateErrorMessage_Same(err) == MsgCreateFailed

\* catch block of createInstantMeeting: the message shown for a thrown value
CreateErrorMessage(err) ==
    IF err.isError /\ Includes(err.message, Needle)
    THEN MsgConnNotReady
    ELSE MsgCreateFailed

\* Variant without the handle check.
ClientMissing_Never(c) == FALSE

\* if (!client) of both actions
ClientMissing(c) == c = 0

Toast(kind, text) == [kind |-> kind, text |-> text]

NoErr == [isError |-> FALSE, message |-> <<>>]

\* One invocation record: op, the id it works on, its position, the request
\* it sent, where it navigated, what it showed.
NewInv(op, id, pc, sent, nav, toasts) ==
    [op |-> op, id |-> id, pc |-> pc, sent |-> sent, nav |-> nav,
     toasts |-> toasts, err |-> NoErr, existed |-> id \in sessions]

UuidsUsed == Cardinality({i \in 1..Len(invs) : invs[i].op = "create"
                                                /\ invs[i].pc # "notReady"})

\* Variant that navigates before the creation call is awaited.
CreateInstantMeeting_NavFirst ==
    IF ClientMissing(actClient)
    THEN NewInv("create", <<>>, "notReady", FALSE, <<>>,
                <<Toast("error", MsgNotInit)>>)
    ELSE NewInv("create", Uuid(UuidsUsed + 1), "awaitCreate", TRUE,
                MeetingPath(Uuid(UuidsUsed + 1)), <<>>)

\* createInstantMeeting() up to its first suspension point
CreateInstantMeeting ==
    IF ClientMissing(actClient)
    THEN NewInv("create", <<>>, "notReady", FALSE, <<>>,
                <<Toast("error", MsgNotInit)>>)
    ELSE NewInv("create", Uuid(UuidsUsed + 1), "awaitCreate", TRUE, <<>>, <<>>)

\* Variant that looks the session up before navigating.
JoinMeeting_Validating(callId) ==
    IF ClientMissing(actClient)
    THEN NewInv("join", callId, "notReady", FALSE, <<>>,
                <<Toast("error", MsgNotInit)>>)
    ELSE IF callId \in sessions
    THEN NewInv("join", callId, "navigated", FALSE, MeetingPath(callId), <<>>)
    ELSE NewInv("join", callId, "notFound", FALSE, <<>>, <<>>)

\* joinMeeting(callId)
JoinMeeting(callId) ==
    IF ClientMissing(actClient)
    THEN NewInv("join", callId, "notReady", FALSE, <<>>,
                <<Toast("error", MsgNotInit)>>)
    ELSE NewInv("join", callId, "navigated", FALSE, MeetingPath(callId), <<>>)

ActInit ==
    /\ actClient = 0
    /\ showModal = FALSE
    /\ modalType = "none"
    /\ meetingURL = <<>>
    /\ sessions = {<<"a">>}
    /\ invs = <<>>
    /\ skippedJoin = FALSE

\* The provider above starts or stops supplying a handle.
ContextChange(c) ==
    /\ c # actClient
    /\ actClient' = c
    /\ UNCHANGED <<showModal, modalType, meetingURL, sessions, invs,
                   skippedJoin>>
    /\ UNCHANGED notAct

\* Home.handleQuickAction("New Call" | "Join Interview")
HandleQuickAction(t) ==
    /\ modalType' = t
    /\ showModal' = TRUE
    /\ UNCHANGED <<actClient, meetingURL, sessions, invs,
                   skippedJoin>>
    /\ UNCHANGED notAct

\* Input onChange
OnChangeURL(s) ==
    /\ showModal
    /\ modalType = "join"
    /\ s # meetingURL
    /\ meetingURL' = s
    /\ UNCHANGED <<actClient, showModal, modalType, sessions, invs,
                   skippedJoin>>
    /\ UNCHANGED notAct

\* Cancel button / dialog dismissed
OnClose ==
    /\ showModal
    /\ showModal' = FALSE
    /\ UNCHANGED <<actClient, modalType, meetingURL, sessions, invs,
                   skippedJoin>>
    /\ UNCHANGED notAct

\* MeetingModal.handleStart, reachable while the button is enabled
HandleStart ==
    /\ showModal
    /\ Len(invs) < MaxInvocations
    /\ ~(modalType = "join" /\ Trim(meetingURL) = <<>>)
    /\ IF modalType = "join"
       THEN LET meetingId == LastSegment(meetingURL)
            IN IF meetingId # <<>>
               THEN /\ invs' = Append(invs, JoinMeeting(meetingId))
                    /\ UNCHANGED skippedJoin
               ELSE /\ invs' = invs
                    /\ skippedJoin' = TRUE
       ELSE /\ invs' = Append(invs, CreateInstantMeeting)
            /\ UNCHANGED skippedJoin
    /\ meetingURL' = <<>>
    /\ showModal' = FALSE
    /\ UNCHANGED <<actClient, modalType, sessions>>
    /\ UNCHANGED notAct

\* call.getOrCreate() of invocation i resolved
CreateResolve(i) ==
    /\ i <= Len(invs)
    /\ invs[i].pc = "awaitCreate"
    /\ sessions' = sessions \cup {invs[i].id}
    /\ invs' = [invs EXCEPT ![i].pc = "navigated",
                            ![i].nav = MeetingPath(invs[i].id),
                            ![i].toasts = Append(@, Toast("success", MsgCreated))]
    /\ UNCHANGED <<actClient, showModal, modalType, meetingURL,
                   skippedJoin>>
    /\ UNCHANGED notAct

\* call.getOrCreate() of invocation i rejected with err
CreateReject(i, err) ==
    /\ i <= Len(invs)
    /\ invs[i].pc = "awaitCreate"
    /\ invs' = [invs EXCEPT ![i].pc = "failed",
                            ![i].err = err,
                            ![i].toasts = Append(@, Toast("error", CreateErrorMessage(err)))]
    /\ UNCHANGED <<actClient, showModal, modalType, meetingURL, sessions,
                   skippedJoin>>
    /\ UNCHANGED notAct

ActNext ==
    \/ \E c \in 0..1 : ContextChange(c)
    \/ \E t \in {"start", "join"} : HandleQuickAction(t)
    \/ \E s \in URLs : OnChangeURL(s)
    \/ OnClose
    \/ HandleStart
    \/ \E i \in 1..MaxInvocations : CreateResolve(i)
    \/ \E i \in 1..MaxInvocations, err \in Errors : CreateReject(i, err)

\* ------------------------------------------------------- useGetcallById
\* setInterval(..., 1000)
RetryIntervalMs == 1000

MsgNotFound == "Meeting not found or has ended"
MsgLoadFailed == "Failed to load meeting"

NotFoundNeedle == <<"n", "o", "t", " ", "f", "o", "u", "n", "d">>

\* Values a rejected call.get() can throw.
LkErrMessages == { <<"n", "o", "t", " ", "f", "o", "u", "n", "d">>,
                   <<"n", "o", "t", " ", "f", "o", "u", "n">>,
                   <<"N", "o", "t", " ", "f", "o", "u", "n", "d">> }
LkErrors == [isError : BOOLEAN, message : LkErrMessages]

\* catch block of getCall: the message shown for a thrown value
LookupErrorMessage(err) ==
    IF err.isError /\ Includes(err.message, NotFoundNeedle)
    THEN MsgNotFound
    ELSE MsgLoadFailed

\* An effect run of the hook that has not started yet.
NoLkRun == [started |-> FALSE, mounted |-> FALSE, client |-> 0, id |-> 0,
            timer |-> 0, ticks |-> 0, attempts |-> 0, fetches |-> 0,
            pending |-> 0, outcome |-> "none", toasts |-> <<>>]

\* getCall(): returns at once without a client, else starts call.get()
GetCall(r) ==
    IF r.client = 0
    THEN [r EXCEPT !.attempts = @ + 1]
    ELSE [r EXCEPT !.attempts = @ + 1, !.fetches = @ + 1, !.pending = @ + 1]

\* Variant whose interval callback retries whatever the client is.
RetryNeeded_Always(c) == TRUE

\* interval callback: if (!client)
RetryNeeded(c) == c = 0

\* The effect body: mounted = true, getCall(), setInterval.
StartLkRun(c, id) ==
    GetCall([started |-> TRUE, mounted |-> TRUE, client |-> c, id |-> id,
             timer |-> RetryIntervalMs, ticks |-> 0, attempts |-> 0,
             fetches |-> 0, pending |-> 0, outcome |-> "none",
             toasts |-> <<>>])

\* Variant of the cleanup that leaves the interval running.
StopLkRun_KeepTimer(r) == [r EXCEPT !.mounted = FALSE]

\* The cleanup of the effect: mounted = false, clearInterval.
StopLkRun(r) == [r EXCEPT !.mounted = FALSE, !.timer = 0]

\* MeetingPage: the view rendered from the hook's outputs
MeetingView(loaded) ==
    IF ~loaded \/ isCallLoading THEN "loading"
    ELSE IF call = <<>> THEN "notFound"
    ELSE "room"

\* The hook right after its first render and effect, in whatever context
\* the component was mounted.
LookInit ==
    /\ lkMounted = TRUE
    /\ lkClient \in {0} \cup LkHandles
    /\ lkId \in CallIds
    /\ call = <<>>
    /\ isCallLoading = TRUE
    /\ lkRun = 1
    /\ lkRuns = [r \in LkRunIds |-> IF r = 1 THEN StartLkRun(lkClient, lkId)
                                              ELSE NoLkRun]

\* The component using the hook is unmounted (route change, or the provider
\* stops rendering its children or changes the wrapper around them).
LkUnmount ==
    /\ lkMounted
    /\ lkMounted' = FALSE
    /\ call' = <<>>
    /\ isCallLoading' = TRUE
    /\ lkRuns' = [lkRuns EXCEPT ![lkRun] = StopLkRun(@)]
    /\ UNCHANGED <<lkClient, lkId, lkRun>>
    /\ UNCHANGED notLook

\* A new instance is mounted with the context value c and route id: fresh
\* state, first effect run.
LkMount(c, id) ==
    /\ ~lkMounted
    /\ lkRun < MaxLkRuns
    /\ lkMounted' = TRUE
    /\ lkClient' = c
    /\ lkId' = id
    /\ call' = <<>>
    /\ isCallLoading' = TRUE
    /\ lkRun' = lkRun + 1
    /\ lkRuns' = [lkRuns EXCEPT ![lkRun + 1] = StartLkRun(c, id)]
    /\ UNCHANGED notLook

\* The provider publishes another handle while the hook stays mounted
\* inside the video context: the dependency changed, cleanup then effect.
LkClientSwap(c) ==
    /\ lkMounted
    /\ lkRun < MaxLkRuns
    /\ lkClient # 0 /\ c # 0 /\ c # lkClient
    /\ lkClient' = c
    /\ lkRun' = lkRun + 1
    /\ lkRuns' = [lkRuns EXCEPT ![lkRun] = StopLkRun(@),
                                ![lkRun + 1] = StartLkRun(c, lkId)]
    /\ UNCHANGED <<lkMounted, lkId, call, isCallLoading>>
    /\ UNCHANGED notLook

\* The id argument changes while the hook stays mounted.
LkIdChange(id) ==
    /\ lkMounted
    /\ lkRun < MaxLkRuns
    /\ id # lkId
    /\ lkId' = id
    /\ lkRun' = lkRun + 1
    /\ lkRuns' = [lkRuns EXCEPT ![lkRun] = StopLkRun(@),
                                ![lkRun + 1] = StartLkRun(lkClient, id)]
    /\ UNCHANGED <<lkMounted, lkClient, call, isCallLoading>>
    /\ UNCHANGED notLook

\* The interval callback of run r fires.
Tick(r) ==
    /\ lkRuns[r].timer # 0
    /\ lkRuns[r].ticks < MaxTicks
    /\ lkRuns' = [lkRuns EXCEPT ![r] =
                      IF RetryNeeded(lkRuns[r].client)
                      THEN GetCall([@ EXCEPT !.ticks = @ + 1])
                      ELSE [@ EXCEPT !.ticks = @ + 1]]
    /\ UNCHANGED <<lkMounted, lkClient, lkId, call, isCallLoading, lkRun>>
    /\ UNCHANGED notLook

\* call.get() of run r resolved.
FetchResolve(r) ==
    /\ lkRuns[r].pending > 0
    /\ IF lkRuns[r].mounted
       THEN /\ call' = <<lkRuns[r].client, lkRuns[r].id>>
            /\ isCallLoading' = FALSE
            /\ lkRuns' = [lkRuns EXCEPT ![r].pending = @ - 1,
                                        ![r].outcome = "ok"]
       ELSE /\ lkRuns' = [lkRuns EXCEPT ![r].pending = @ - 1,
                                        ![r].outcome = "discarded"]
            /\ UNCHANGED <<call, isCallLoading>>
    /\ UNCHANGED <<lkMounted, lkClient, lkId, lkRun>>
    /\ UNCHANGED notLook

\* call.get() of run r rejected with err.
FetchReject(r, err) ==
    /\ lkRuns[r].pending > 0
    /\ IF lkRuns[r].mounted
       THEN /\ isCallLoading' = FALSE
            /\ lkRuns' = [lkRuns EXCEPT ![r].pending = @ - 1,
                                        ![r].outcome = "error",
                                        ![r].toasts = Append(@, LookupErrorMessage(err))]
       ELSE /\ lkRuns' = [lkRuns EXCEPT ![r].pending = @ - 1,
                                        ![r].outcome = "discarded"]
            /\ UNCHANGED isCallLoading
    /\ UNCHANGED <<lkMounted, lkClient, lkId, call, lkRun>>
    /\ UNCHANGED notLook

LookNext ==
    \/ LkUnmount
    \/ \E c \in {0} \cup LkHandles, id \in CallIds : LkMount(c, id)
    \/ \E c \in LkHandles : LkClientSwap(c)
    \/ \E id \in CallIds : LkIdChange(id)
    \/ \E r \in LkRunIds : Tick(r)
    \/ \E r \in LkRunIds : FetchResolve(r)
    \/ \E r \in LkRunIds, err \in LkErrors : FetchReject(r, err)

\* ------------------------------------- Directory Sync and Role Resolver
\* user?.id || ""  : the id sent when there is no user object
EmptyId == 0

NoUser == [id |-> 0, firstName |-> "", lastName |-> "", email |-> "",
           imageUrl |-> ""]

\* The user objects the identity provider can deliver for an id: the
\* profile before and after the user edited it.
UserObjects ==
    { [id |-> u, firstName |-> f, lastName |-> "Doe", email |-> "x@y",
       imageUrl |-> i] : u \in DirIds, f \in {"Ann"}, i \in {"img1", "img2"} }

\* NavBar: the arguments of syncUser
SyncArgs(uo) ==
    [name |-> <<uo.firstName, " ", uo.lastName>>,
     email |-> uo.email,
     clerkId |-> uo.id,
     image |-> uo.imageUrl]

\* Variant of the NavBar guard that only waits for the identity to load.
SyncNeeded_LoadedOnly(l, uo) == l

\* NavBar: if (!isLoaded || !user) return
SyncNeeded(l, uo) == l /\ uo.id # 0

\* NavBar effect: the mutations it sends
NavBarEffect(l, uo) == IF SyncNeeded(l, uo) THEN <<SyncArgs(uo)>> ELSE <<>>

\* useUSerRole: the clerkId argument of the query
ClerkIdArg(uo) == IF uo.id # 0 THEN uo.id ELSE EmptyId

RowsOf(tbl, cid) == {r \in tbl : r.clerkId = cid}

\* .withIndex("by_clerk_id", ...).first()
FirstRow(tbl, cid) ==
    CHOOSE r \in RowsOf(tbl, cid) : \A q \in RowsOf(tbl, cid) : r.rid <= q.rid

\* Variant that inserts without looking for an existing record.
SyncUser_InsertOnly(tbl, args, t) ==
    tbl \cup {[rid |-> Cardinality(tbl) + 1, clerkId |-> args.clerkId,
                name |-> args.name, email |-> args.email,
                image |-> args.image, role |-> "candidate", createdAt |-> t]}

\* Variant that keeps a separate record per avatar.
SyncUser_KeyedByImage(tbl, args, t) ==
    IF \E r \in RowsOf(tbl, args.clerkId) : r.image = args.image
    THEN tbl
    ELSE SyncUser_InsertOnly(tbl, args, t)

\* Variant whose update also rewrites the role and the creation time.
SyncUser_ResetRole(tbl, args, t) ==
    IF RowsOf(tbl, args.clerkId) # {}
    THEN LET ex == FirstRow(tbl, args.clerkId)
         IN (tbl \ {ex}) \cup {[ex EXCEPT !.name = args.name,
                                            !.email = args.email,
                                            !.image = args.image,
                                            !.role = "candidate",
                                            !.createdAt = t]}
    ELSE SyncUser_InsertOnly(tbl, args, t)

\* syncUser mutation: update name, email and avatar of the record with this
\* external id, or insert a new candidate record stamped with the time.
SyncUser(tbl, args, t) ==
    IF RowsOf(tbl, args.clerkId) # {}
    THEN LET ex == FirstRow(tbl, args.clerkId)
         IN (tbl \ {ex}) \cup {[ex EXCEPT !.name = args.name,
                                            !.email = args.email,
                                            !.image = args.image]}
    ELSE tbl \cup {[rid |-> Cardinality(tbl) + 1, clerkId |-> args.clerkId,
                    name |-> args.name, email |-> args.email,
                    image |-> args.image, role |-> "candidate",
                    createdAt |-> t]}

Undefined == [kind |-> "undefined", row |-> <<>>]
Null == [kind |-> "null", row |-> <<>>]

\* getUserByClerkId query: the record with this external id, or null
GetUserByClerkId(tbl, cid) ==
    IF RowsOf(tbl, cid) = {} THEN Null
    ELSE [kind |-> "record", row |-> FirstRow(tbl, cid)]

\* Variant that treats "no record" as still loading.
UseUSerRole_NullLoading(ud) ==
    [isLoading |-> ud.kind # "record",
     isInterviewer |-> ud.kind = "record" /\ ud.row.role = "interviewer",
     isCandidate |-> ud.kind = "record" /\ ud.row.role = "candidate"]

\* useUSerRole: the flags derived from the query result
UseUSerRole(ud) ==
    [isLoading |-> ud.kind = "undefined",
     isInterviewer |-> ud.kind = "record" /\ ud.row.role = "interviewer",
     isCandidate |-> ud.kind = "record" /\ ud.row.role = "candidate"]

\* schedule page: what it renders for the query result ud
SchedulePage(ud) ==
    IF UseUSerRole(ud).isLoading THEN "loader"
    ELSE IF ~UseUSerRole(ud).isInterviewer THEN "redirect"
    ELSE "schedule"

\* DashboardBtn: if (isCandidate || isLoading) return null
DashboardBtn(ud) ==
    IF UseUSerRole(ud).isCandidate \/ UseUSerRole(ud).isLoading THEN "null"
    ELSE "button"

\* NavBar: <SignedIn> ... <DashboardBtn /> ... </SignedIn>
DashboardShown(l, uo, ud) == l /\ uo.id # 0 /\ DashboardBtn(ud) = "button"

\* A directory in which identity 1 was made an interviewer earlier.
SeededTable ==
    {[rid |-> 1, clerkId |-> 1, name |-> <<"Ann", " ", "Doe">>,
      email |-> "x@y", image |-> "img1", role |-> "interviewer",
      createdAt |-> 0]}

Issued ==
    now + Len(pendingSync[1]) + Len(pendingSync[2])
        + unhandled[1] + unhandled[2]

DirInit ==
    /\ dvLoaded = [d \in Devices |-> FALSE]
    /\ dvUser = [d \in Devices |-> NoUser]
    /\ pendingSync = [d \in Devices |-> <<>>]
    /\ userData = [d \in Devices |-> Undefined]
    /\ sentinelRan = [d \in Devices |-> FALSE]
    /\ table \in {{}, SeededTable}
    /\ now = 1
    /\ unhandled = [d \in Devices |-> 0]

\* useUser() on device d delivers a new (user, isLoaded) pair; NavBar's
\* effect runs and the role query is re-subscribed when its argument changed.
DvIdentityChange(d, uo) ==
    /\ (dvLoaded[d] /\ dvUser[d].id = 0) => uo.id # 0
    /\ uo # dvUser[d] \/ ~dvLoaded[d]
    /\ Issued + Len(NavBarEffect(TRUE, uo)) <= MaxSyncs
    /\ dvLoaded' = [dvLoaded EXCEPT ![d] = TRUE]
    /\ dvUser' = [dvUser EXCEPT ![d] = uo]
    /\ pendingSync' = [pendingSync EXCEPT ![d] = @ \o NavBarEffect(TRUE, uo)]
    /\ userData' = [userData EXCEPT ![d] =
                        IF ClerkIdArg(uo) = ClerkIdArg(dvUser[d])
                        THEN @ ELSE Undefined]
    /\ UNCHANGED <<sentinelRan, table, now, unhandled>>
    /\ UNCHANGED notDir

\* The directory applies the oldest mutation sent by device d.
SyncApply(d) ==
    /\ pendingSync[d] # <<>>
    /\ table' = SyncUser(table, Head(pendingSync[d]), now)
    /\ now' = now + 1
    /\ pendingSync' = [pendingSync EXCEPT ![d] = Tail(@)]
    /\ UNCHANGED <<dvLoaded, dvUser, userData, sentinelRan, unhandled>>
    /\ UNCHANGED notDir

\* Variant in which the promise of syncUser has a catch handler.
Uncaught_Never(n) == n

\* NavBar calls syncUser(...) without await or catch: a rejection of the
\* returned promise has no handler.
Uncaught(n) == n + 1

\* The directory refuses the oldest mutation sent by device d (the handler
\* threw, or the call was refused): the promise returned to NavBar rejects.
SyncReject(d) ==
    /\ pendingSync[d] # <<>>
    /\ pendingSync' = [pendingSync EXCEPT ![d] = Tail(@)]
    /\ unhandled' = [unhandled EXCEPT ![d] = Uncaught(@)]
    /\ UNCHANGED <<dvLoaded, dvUser, userData, sentinelRan, table, now>>
    /\ UNCHANGED notDir

\* The role query of device d is (re-)evaluated and its result delivered.
QueryResolve(d) ==
    /\ userData[d] # GetUserByClerkId(table, ClerkIdArg(dvUser[d]))
    /\ userData' = [userData EXCEPT ![d] =
                        GetUserByClerkId(table, ClerkIdArg(dvUser[d]))]
    /\ sentinelRan' = [sentinelRan EXCEPT ![d] =
                           @ \/ ClerkIdArg(dvUser[d]) = EmptyId]
    /\ UNCHANGED <<dvLoaded, dvUser, pendingSync, table, now, unhandled>>
    /\ UNCHANGED notDir

DirNext ==
    \/ \E d \in Devices, uo \in UserObjects \cup {NoUser} : DvIdentityChange(d, uo)
    \/ \E d \in Devices : SyncApply(d)
    \/ \E d \in Devices : SyncReject(d)
    \/ \E d \in Devices : QueryResolve(d)

\* ---------------------------------------------- Session Token Provider
NoToken == <<>>

\* generateUserToken({ user_id }): a token for uid signed with the secret
Token(uid, secret) == <<"token", ToString(uid), secret>>

Entry(text, arg) == [text |-> text, arg |-> arg]

MsgNotAuthenticated == "User not authenticated"
MsgConnectFailed == "Failed to connect to video service"
MsgConstructFailed == "construct failed"

\* Variant that mints a token whether or not there is an identity.
StreamTokenProvider_FailOpen(su, secret) ==
    [threw |-> FALSE, error |-> "", token |-> Token(su, secret),
     logs |-> << Entry("Stream Token Provider: Current user:", <<ToString(su)>>),
                 Entry("Stream Token Provider: Token generated successfully", <<>>) >>]

\* Variant that prints the token it generated.
StreamTokenProvider_LogsToken(su, secret) ==
    IF su = 0
    THEN [threw |-> TRUE, error |-> MsgNotAuthenticated, token |-> NoToken,
          logs |-> << Entry("Stream Token Provider: Current user:", <<>>),
                      Entry("Stream Token Provider: No user found", <<>>),
                      Entry("Stream Token Provider Error:", <<MsgNotAuthenticated>>) >>]
    ELSE [threw |-> FALSE, error |-> "", token |-> Token(su, secret),
          logs |-> << Entry("Stream Token Provider: Current user:", <<ToString(su)>>),
                      Entry("Stream Token Provider: Token generated successfully",
                            Token(su, secret)) >>]

\* streamTokenProvider, called with currentUser() = su (0: nobody)
StreamTokenProvider(su, secret) ==
    IF su = 0
    THEN [threw |-> TRUE, error |-> MsgNotAuthenticated, token |-> NoToken,
          logs |-> << Entry("Stream Token Provider: Current user:", <<>>),
                      Entry("Stream Token Provider: No user found", <<>>),
                      Entry("Stream Token Provider Error:", <<MsgNotAuthenticated>>) >>]
    ELSE [threw |-> FALSE, error |-> "", token |-> Token(su, secret),
          logs |-> << Entry("Stream Token Provider: Current user:", <<ToString(su)>>),
                      Entry("Stream Token Provider: Token generated successfully", <<>>) >>]

\* initClient after the await: what it prints for response resp
ReceiveLogs(resp, stillMounted, constructThrows) ==
    IF resp.threw
    THEN << Entry("StreamProvider Error:", <<resp.error>>) >>
    ELSE << Entry("StreamProvider: Token received successfully", <<>>) >>
         \o IF ~stillMounted
            THEN << Entry("StreamProvider: Component unmounted, aborting initialization", <<>>) >>
            ELSE << Entry("StreamProvider: Initializing client with token", <<>>) >>
                 \o IF constructThrows
                    THEN << Entry("StreamProvider Error:", <<MsgConstructFailed>>) >>
                    ELSE << Entry("StreamProvider: Client initialized successfully", <<>>) >>

\* initClient after the await: the notifications it shows
ReceiveToasts(resp, stillMounted, constructThrows) ==
    IF stillMounted /\ (resp.threw \/ constructThrows)
    THEN <<MsgConnectFailed>>
    ELSE <<>>

NoHandle == [id |-> 0, token |-> NoToken]

\* new StreamVideoClient({ apiKey, user: { id: user.id, ... }, token })
NewStreamVideoClient(cu, token) == [id |-> cu, token |-> token]

\* initClient after the await: the handle it holds afterwards
ReceiveHandle(old, cu, resp, stillMounted, constructThrows) ==
    IF ~resp.threw /\ stillMounted /\ ~constructThrows
    THEN NewStreamVideoClient(cu, resp.token)
    ELSE old

NoResponse == [threw |-> FALSE, error |-> "", token |-> NoToken, logs |-> <<>>]

Both(x) == [a |-> x, b |-> x]

TokInit ==
    /\ tkSecrets \in {p \in [a : Secrets, b : Secrets] : p.a # p.b}
    /\ tkPc = "idle"
    /\ tkUser = 0
    /\ tkSrvUser = 0
    /\ tkResponse = Both(NoResponse)
    /\ tkLog = Both(<<>>)
    /\ tkToasts = Both(<<>>)
    /\ tkRuns = 0
    /\ tkHandle = Both(NoHandle)

\* initClient starts for the signed-in user cu and calls the server action.
ClientStart(cu) ==
    /\ tkPc = "idle"
    /\ tkRuns < MaxTokenRuns
    /\ tkRuns' = tkRuns + 1
    /\ tkPc' = "requested"
    /\ tkUser' = cu
    /\ tkLog' = [w \in {"a", "b"} |->
                    Append(tkLog[w],
                           Entry("StreamProvider: Getting token for user:",
                                 <<ToString(cu)>>))]
    /\ UNCHANGED <<tkSecrets, tkSrvUser, tkResponse, tkToasts, tkHandle>>
    /\ UNCHANGED notTok

\* streamTokenProvider runs on the server, where currentUser() is su.
ServerCall(su) ==
    /\ tkPc = "requested"
    /\ tkPc' = "responded"
    /\ tkSrvUser' = su
    /\ tkResponse' = [w \in {"a", "b"} |-> StreamTokenProvider(su, tkSecrets[w])]
    /\ tkLog' = [w \in {"a", "b"} |->
                    tkLog[w] \o StreamTokenProvider(su, tkSecrets[w]).logs]
    /\ UNCHANGED <<tkSecrets, tkUser, tkToasts, tkRuns, tkHandle>>
    /\ UNCHANGED notTok

\* The awaited call returns to initClient, which goes on to construct the
\* client or reports the failure.
ClientReceive(stillMounted, constructThrows) ==
    /\ tkPc = "responded"
    /\ tkPc' = "idle"
    /\ tkLog' = [w \in {"a", "b"} |->
                    tkLog[w] \o ReceiveLogs(tkResponse[w], stillMounted,
                                            constructThrows)]
    /\ tkToasts' = [w \in {"a", "b"} |->
                       tkToasts[w] \o ReceiveToasts(tkResponse[w], stillMounted,
                                                    constructThrows)]
    /\ tkHandle' = [w \in {"a", "b"} |->
                       ReceiveHandle(tkHandle[w], tkUser, tkResponse[w],
                                     stillMounted, constructThrows)]
    /\ UNCHANGED <<tkSecrets, tkUser, tkSrvUser, tkResponse, tkRuns>>
    /\ UNCHANGED notTok

TokNext ==
    \/ \E cu \in TokIds : ClientStart(cu)
    \/ \E su \in {0} \cup TokIds : ServerCall(su)
    \/ \E m, t \in BOOLEAN : ClientReceive(m, t)

\* ------------------------------------------------------ Home dashboard
\* .filter(interview => new Date(interview.startTime) > new Date())
FilterUpcoming(ivs, t) == SelectSeq(ivs, LAMBDA iv : iv.startTime > t)

\* x placed behind every element that does not start later than x
InsertByStart(x, sorted) ==
    LET k == Cardinality({i \in 1..Len(sorted) :
                             sorted[i].startTime <= x.startTime})
    IN SubSeq(sorted, 1, k) \o <<x>> \o SubSeq(sorted, k + 1, Len(sorted))

RECURSIVE SortByStart(_)
\* .sort((a, b) => a.startTime - b.startTime): ascending and stable
SortByStart(ivs) ==
    IF ivs = <<>> THEN <<>>
    ELSE InsertByStart(ivs[Len(ivs)], SortByStart(SubSeq(ivs, 1, Len(ivs) - 1)))

\* .slice(0, n)
Slice(sq, n) == SubSeq(sq, 1, IF Len(sq) < n THEN Len(sq) ELSE n)

\* Home: upcomingInterviews
UpcomingInterviews(ivs, t) == Slice(SortByStart(FilterUpcoming(ivs, t)), 3)

\* Home: upcomingCount = upcomingInterviews?.length ?? 0
UpcomingCount(ivs, t) == Len(UpcomingInterviews(ivs, t))

DashInit ==
    /\ interviews = <<>>
    /\ dashNow = 0

\* The interviews query delivers a list with one more record.
InterviewAdded(t) ==
    /\ Len(interviews) < MaxInterviews
    /\ interviews' = Append(interviews,
                            [id |-> Len(interviews) + 1, startTime |-> t])
    /\ UNCHANGED dashNow
    /\ UNCHANGED notDash

\* Home is rendered again at a later time.
RenderLater ==
    /\ dashNow < LastNow
    /\ dashNow' = dashNow + 1
    /\ UNCHANGED interviews
    /\ UNCHANGED notDash

DashNext ==
    \/ \E t \in StartTimes : InterviewAdded(t)
    \/ RenderLater

vars == <<provVars, actVars, lookVars, dirVars, tokVars, dashVars>>

\* ================================================================ claims
\* The current effect run ended in the catch block while still mounted.
Failed(e) == runs[e].pc \in {"caughtToken", "caughtConstruct"}

\* C1: at most one constructed call-client handle is live (constructed and
\* not yet disconnected) at any instant.
C1_SingleLiveHandle == Cardinality(Live) <= 1

\* C2: a run torn down while its token request is in flight constructs no
\* handle, never calls setStreamVideoClient and raises no notification when
\* the request later resolves or rejects.
C2_NoPublishAfterUnmount ==
    [][\A e \in Epochs :
          (runs[e].pc = "awaitToken" /\ ~runs[e].mounted)
          => /\ runs'[e].client = 0
             /\ runs'[e].sets = 0
             /\ runs'[e].toasts = 0
             /\ streamVideoClient' # e]_vars

\* C2 witness: a token request resolved after its run was torn down, and
\* another one rejected after its run was torn down.
C2_Witness ==
    \E e, f \in Epochs : runs[e].pc = "aborted" /\ runs[f].pc = "caughtSilent"

C4_FailedRendersChildren ==
    (provMounted /\ isLoaded /\ user # 0 /\ runs[epoch].mounted /\ Failed(epoch))
        => Render = "children"

\* C5: a failure while mounted notifies the user exactly once and leaves the
\* provider's state without a published handle.
C5_FailureLeavesNoHandle ==
    \A e \in Epochs :
        (Failed(e) /\ e = epoch /\ runs[e].mounted /\ provMounted)
            => runs[e].toasts = 1 /\ streamVideoClient = 0

\* C6: createInstantMeeting navigates to /meetings/<id> only after the
\* creation call for that same id has resolved; a rejected or pending
\* creation has not navigated.
C6_CreateBeforeNavigate ==
    \A i \in 1..Len(invs) :
        invs[i].op = "create"
        => /\ invs[i].nav # <<>>
              => /\ invs[i].pc = "navigated"
                 /\ invs[i].sent
                 /\ invs[i].id \in sessions
                 /\ invs[i].nav = MeetingPath(invs[i].id)
           /\ invs[i].pc \in {"awaitCreate", "failed", "notReady"}
              => invs[i].nav = <<>>

\* C6 witness: one creation resolved and navigated, another one rejected.
C6_Witness ==
    \E i, j \in 1..Len(invs) :
        /\ invs[i].op = "create" /\ invs[i].pc = "navigated"
        /\ invs[j].op = "create" /\ invs[j].pc = "failed"

\* The failure class the catch block singles out: an Error whose message
\* mentions the token.
TokenFailure(err) == err.isError /\ Includes(err.message, Needle)

\* C7: a failed creation reports exactly one error notification and no
\* success notification; a token-readiness failure and any other failure get
\* different messages, both different from the handle-not-ready message.
C7_DistinctCreateErrors ==
    \A i \in 1..Len(invs) :
        invs[i].pc = "failed"
        => /\ Len(invs[i].toasts) = 1
           /\ invs[i].toasts[1].kind = "error"
           /\ invs[i].toasts[1].text # MsgNotInit
           /\ \A j \in 1..Len(invs) :
                 (invs[j].pc = "failed"
                  /\ TokenFailure(invs[i].err) # TokenFailure(invs[j].err))
                 => invs[i].toasts[1].text # invs[j].toasts[1].text

\* C7 witness: a token-readiness failure and another failure were reported.
C7_Witness ==
    \E i, j \in 1..Len(invs) :
        /\ invs[i].pc = "failed" /\ TokenFailure(invs[i].err)
        /\ invs[j].pc = "failed" /\ ~TokenFailure(invs[j].err)

\* The invocation appended by this step, if any.
Invoked == Len(invs') = Len(invs) + 1
NewestInv == invs'[Len(invs')]

C9_JoinAlwaysNavigates ==
    \A i \in 1..Len(invs) :
        invs[i].op = "join"
        => /\ invs[i].id # <<>>
           /\ invs[i].nav = MeetingPath(invs[i].id)
           /\ ~invs[i].sent

\* C9 amended: while a handle is published, joinMeeting called from the
\* dialog gets a non-empty id and navigates immediately to /meetings/<id>,
\* whether or not the session exists, sending nothing to the platform.
C9_JoinNavigatesWithHandle ==
    [][(Invoked /\ NewestInv.op = "join" /\ actClient # 0)
       => /\ NewestInv.id # <<>>
          /\ NewestInv.id = LastSegment(meetingURL)
          /\ NewestInv.nav = MeetingPath(NewestInv.id)
          /\ ~NewestInv.sent
          /\ sessions' = sessions]_vars

\* C9 witness: a join navigated for an existing session and another one for
\* a session that does not exist.
C9_Witness ==
    \E i, j \in 1..Len(invs) :
        /\ invs[i].op = "join" /\ invs[i].pc = "navigated" /\ invs[i].existed
        /\ invs[j].op = "join" /\ invs[j].pc = "navigated" /\ ~invs[j].existed

\* C10: a run of the lookup without a handle never starts a fetch, stays
\* loading and keeps its 1-second interval; a run with a handle starts exactly
\* one fetch, whatever the interval does and however the fetch ends.
C10_FetchOncePerHandle ==
    \A r \in LkRunIds :
        lkRuns[r].started
        => /\ lkRuns[r].client = 0
              => /\ lkRuns[r].fetches = 0
                 /\ lkRuns[r].mounted
                    => isCallLoading /\ lkRuns[r].timer = RetryIntervalMs
           /\ lkRuns[r].client # 0 => lkRuns[r].fetches = 1

\* C10 witness: one run retried without a handle, another run with a handle
\* saw its fetch fail and its interval fire afterwards.
C10_Witness ==
    \E r, q \in LkRunIds :
        /\ lkRuns[r].client = 0 /\ lkRuns[r].attempts >= 2
        /\ lkRuns[q].client # 0 /\ lkRuns[q].outcome = "error"
        /\ lkRuns[q].ticks >= 1

\* C11: once a run of the lookup effect is torn down its interval is
\* cleared, it starts no further attempt, and a result or error of its fetch
\* arriving afterwards changes neither call nor isCallLoading and shows no
\* notification.
C11_NoActivityAfterTeardown ==
    [][\A r \in LkRunIds :
          (lkRuns[r].started /\ ~lkRuns[r].mounted)
          => /\ lkRuns[r].timer = 0
             /\ lkRuns'[r].timer = 0
             /\ lkRuns'[r].ticks = lkRuns[r].ticks
             /\ lkRuns'[r].attempts = lkRuns[r].attempts
             /\ lkRuns'[r].fetches = lkRuns[r].fetches
             /\ lkRuns'[r].toasts = lkRuns[r].toasts
             /\ lkRuns'[r].pending # lkRuns[r].pending
                => call' = call /\ isCallLoading' = isCallLoading]_vars

\* C11 witness: the fetch of a torn-down run ended while the hook was
\* mounted again and still loading.
C11_Witness ==
    \E r \in LkRunIds :
        /\ lkRuns[r].outcome = "discarded"
        /\ ~lkRuns[r].mounted /\ lkRuns[r].fetches = 1
        /\ lkMounted /\ lkRun # r /\ isCallLoading

\* C12: a hook without a handle is shown as loading, never as "Meeting not
\* found"; a lookup that ended with the not-found error shows the "Meeting
\* not found" view (isCallLoading false, no call), notified once, and its
\* run made no second fetch.
C12_NotFoundIsTerminal ==
    lkMounted
    => /\ lkClient = 0 => MeetingView(TRUE) = "loading"
       /\ (lkRuns[lkRun].outcome = "error"
           /\ lkRuns[lkRun].toasts = <<MsgNotFound>>)
          => /\ MeetingView(TRUE) = "notFound"
             /\ ~isCallLoading /\ call = <<>>
             /\ lkRuns[lkRun].fetches = 1

\* C13: the Role Resolver maps a pending lookup to isLoading with both role
\* flags false, a missing record to not loading with both flags false, and
\* a record to not loading with exactly the flag of its role; the two role
\* flags are never both true.
C13_RoleFlags ==
    \A d \in Devices :
        LET ud == userData[d]
            r == UseUSerRole(ud)
        IN /\ ud.kind = "undefined"
              => r.isLoading /\ ~r.isInterviewer /\ ~r.isCandidate
           /\ ud.kind = "null"
              => ~r.isLoading /\ ~r.isInterviewer /\ ~r.isCandidate
           /\ ud.kind = "record"
              => /\ ~r.isLoading
                 /\ r.isInterviewer <=> ud.row.role = "interviewer"
                 /\ r.isCandidate <=> ud.row.role = "candidate"
           /\ ~(r.isInterviewer /\ r.isCandidate)

\* C13 witness: one device resolved to no record, the other to an
\* interviewer, while a candidate record exists as well.
C13_Witness ==
    \E d, e \in Devices :
        /\ userData[d].kind = "null"
        /\ userData[e].kind = "record"
        /\ userData[e].row.role = "interviewer"
        /\ \E r \in table : r.role = "candidate"

\* C14: no directory query is executed on behalf of an absent identity.
C14_NoQueryForAbsentIdentity ==
    \A d \in Devices :
        /\ ~sentinelRan[d]
        /\ dvUser[d].id = 0 => userData[d] = Undefined

\* C15: after a sync is applied there is exactly one record for its
\* external id, carrying the name, email and avatar of the input; applying
\* it to a directory that already holds that input changes nothing.
C15_SyncIdempotent ==
    [][\A d \in Devices :
          (pendingSync[d] # <<>> /\ pendingSync'[d] = Tail(pendingSync[d])
           /\ now' = now + 1)
          => LET a == Head(pendingSync[d])
             IN /\ Cardinality(RowsOf(table', a.clerkId)) = 1
                /\ \A r \in RowsOf(table', a.clerkId) :
                       r.name = a.name /\ r.email = a.email /\ r.image = a.image
                /\ (\E r \in RowsOf(table, a.clerkId) :
                       r.name = a.name /\ r.email = a.email /\ r.image = a.image)
                   => table' = table]_vars

\* C15 witness: the same input was sent twice and applied at least once.
C15_Witness ==
    \E d \in Devices :
        /\ pendingSync[d] # <<>>
        /\ now >= 2
        /\ \E r \in RowsOf(table, Head(pendingSync[d]).clerkId) :
               /\ r.name = Head(pendingSync[d]).name
               /\ r.email = Head(pendingSync[d]).email
               /\ r.image = Head(pendingSync[d]).image

\* C16: a change of the identity on a device never touches the directory;
\* it sends one upsert keyed by the external id when the identity is then
\* loaded and present, and none when it is not.
C16_SyncOnlyWhenPresent ==
    [][\A d \in Devices :
          (dvLoaded'[d] # dvLoaded[d] \/ dvUser'[d] # dvUser[d])
          => /\ table' = table
             /\ IF dvLoaded'[d] /\ dvUser'[d].id # 0
                THEN /\ Len(pendingSync'[d]) = Len(pendingSync[d]) + 1
                     /\ SubSeq(pendingSync'[d], 1, Len(pendingSync[d]))
                            = pendingSync[d]
                     /\ pendingSync'[d][Len(pendingSync'[d])].clerkId
                            = dvUser'[d].id
                ELSE pendingSync'[d] = pendingSync[d]]_vars

\* C16 witness: a device signed out after its upsert was applied, another
\* device has an upsert in flight.
C16_Witness ==
    \E d, e \in Devices :
        /\ dvLoaded[d] /\ dvUser[d].id = 0 /\ pendingSync[d] = <<>>
        /\ dvUser[e].id # 0 /\ pendingSync[e] # <<>>
        /\ table # {} /\ now >= 2

C18_SingleRecordPerIdentity ==
    \A cid \in DirIds : Cardinality(RowsOf(table, cid)) <= 1

\* C18 witness: two devices sent different profiles of the same identity;
\* one upsert was applied while the other is still in flight.
C18_Witness ==
    \E d, e \in Devices :
        /\ d # e
        /\ dvUser[d].id = dvUser[e].id /\ dvUser[d].id # 0
        /\ dvUser[d].imageUrl # dvUser[e].imageUrl
        /\ pendingSync[d] = <<>> /\ pendingSync[e] # <<>>
        /\ RowsOf(table, dvUser[d].id) # {}
        /\ \A r \in RowsOf(table, dvUser[d].id) : r.image = dvUser[d].imageUrl

\* C19: a call of the token provider without an authenticated identity
\* throws and returns no token; with one it returns a token minted for
\* exactly that identity's id; in both cases it writes to no store.
C19_TokenFailsClosed ==
    [][(tkPc = "requested" /\ tkPc' = "responded")
       => /\ \A w \in {"a", "b"} :
                IF tkSrvUser' = 0
                THEN /\ tkResponse'[w].threw
                     /\ tkResponse'[w].token = NoToken
                ELSE /\ ~tkResponse'[w].threw
                     /\ tkResponse'[w].token
                            = <<"token", ToString(tkSrvUser'), tkSecrets[w]>>
          /\ table' = table
          /\ sessions' = sessions
          /\ tkSecrets' = tkSecrets]_vars

\* C19 witness: one call was refused and a later one returned a token for
\* an identity other than the one the browser started the run for.
C19_Witness ==
    /\ tkPc = "responded"
    /\ ~tkResponse.a.threw
    /\ tkSrvUser # 0 /\ tkSrvUser # tkUser
    /\ \E i \in 1..Len(tkLog.a) :
           tkLog.a[i].text = "Stream Token Provider: No user found"

\* C20: two deployments that differ only in the secret key (and so in every
\* token) print the same console output and show the same notifications,
\* and neither the secret nor a token is part of any of them.
C20_NoSecretInOutput ==
    /\ tkLog.a = tkLog.b
    /\ tkToasts.a = tkToasts.b
    /\ \A w \in {"a", "b"} :
           /\ \A i \in 1..Len(tkLog[w]) :
                  \A j \in 1..Len(tkLog[w][i].arg) :
                      tkLog[w][i].arg[j] \notin Secrets
           /\ \A i \in 1..Len(tkToasts[w]) : tkToasts[w][i] \notin Secrets

\* C20 witness: the output holds a refused call, a construction failure
\* that was notified, and a token is held by the browser.
C20_Witness ==
    /\ \E i \in 1..Len(tkLog.a) :
           tkLog.a[i] = Entry("Stream Token Provider Error:", <<MsgNotAuthenticated>>)
    /\ tkToasts.a # <<>>
    /\ tkPc = "responded"
    /\ tkResponse.a.token # NoToken
    /\ tkResponse.a.token # tkResponse.b.token

\* C21: no failure of an asynchronous step is left unhandled; for the
\* directory upsert, no rejected syncUser promise is without a handler.
C21_NoUnhandledRejection ==
    \A d \in Devices : unhandled[d] = 0

\* C22: the late resolution or failure of a torn-down run's token request
\* constructs no handle, publishes nothing, raises no notification and
\* leaves the published handle as it is; in every run publication comes
\* after construction, and construction after the token.
C22_StaleEpochInert ==
    [][\A e \in Epochs :
          /\ (runs[e].pc = "awaitToken" /\ ~runs[e].mounted)
             => /\ runs'[e].client = 0
                /\ runs'[e].sets = 0
                /\ runs'[e].toasts = runs[e].toasts
                /\ runs'[e].pc # runs[e].pc
                   => streamVideoClient' = streamVideoClient
          /\ runs'[e].sets > 0 => runs'[e].client = e
          /\ runs'[e].client # 0
             => runs'[e].pc \in {"published", "constructed"}
          /\ runs'[e].pc \in {"published", "constructed"}
             => runs[e].pc \in {"awaitToken", runs'[e].pc}]_vars

\* C22 witness: a torn-down run's request failed without a notification
\* while the handle of a later run is the one published.
C22_Witness ==
    \E e, f \in Epochs :
        /\ e < f
        /\ runs[e].pc = "caughtSilent" /\ runs[e].toasts = 0
        /\ runs[f].pc = "published" /\ streamVideoClient = f

\* C23: the id handed to joinMeeting by the dialog is the text after the
\* last "/" of the pasted text (the whole text when it has none); when that
\* part is empty nothing is invoked and nothing navigates; in both cases
\* the dialog is closed and its input cleared.
C23_JoinIdIsLastSegment ==
    [][/\ (Len(invs') = Len(invs) + 1 /\ invs'[Len(invs')].op = "join")
          => LET id == invs'[Len(invs')].id
                 n == Len(meetingURL) - Len(id)
             IN /\ id # <<>>
                /\ \A i \in 1..Len(id) : id[i] # "/"
                /\ n >= 0
                /\ id = SubSeq(meetingURL, n + 1, Len(meetingURL))
                /\ n > 0 => meetingURL[n] = "/"
                /\ ~showModal' /\ meetingURL' = <<>>
       /\ (showModal /\ modalType = "join" /\ meetingURL # <<>>
           /\ meetingURL[Len(meetingURL)] = "/")
          => Len(invs') = Len(invs)
       /\ (skippedJoin' /\ ~skippedJoin)
          => /\ meetingURL[Len(meetingURL)] = "/"
             /\ invs' = invs
             /\ ~showModal' /\ meetingURL' = <<>>]_vars

\* C23 witness: one start of the join dialog found no id, another one
\* handed the part after the "/" to joinMeeting, which navigated.
C23_Witness ==
    /\ skippedJoin
    /\ ~showModal /\ meetingURL = <<>>
    /\ \E i \in 1..Len(invs) :
           /\ invs[i].op = "join"
           /\ invs[i].id = <<"b">>
           /\ invs[i].nav = MeetingPath(<<"b">>)

\* C24: whenever descendants are rendered inside the video context, the
\* handle exposed to them was constructed by the current effect run for the
\* identity now present and has not been disconnected.
C24_ExposedHandleIsCurrent ==
    (provMounted /\ Render = "video")
    => /\ streamVideoClient = epoch
       /\ runs[epoch].client = streamVideoClient
       /\ runs[epoch].uid = user
       /\ disconnects[streamVideoClient] = 0

\* C25: the schedule page never redirects an interviewer: while the
\* identity of a device that turns out to be an interviewer is still
\* loading the page shows the loader, and once it is loaded the page shows
\* the loader or the schedule.
C25_InterviewerNeverRedirected ==
    [][\A d \in Devices :
          LET ud == GetUserByClerkId(table, dvUser'[d].id)
          IN (dvLoaded'[d] /\ dvUser'[d].id # 0
              /\ ud.kind = "record" /\ ud.row.role = "interviewer")
             => /\ ~dvLoaded[d] => SchedulePage(userData[d]) = "loader"
                /\ SchedulePage(userData'[d]) # "redirect"]_vars

\* C26: the Dashboard button is shown on a device only when the role
\* query has resolved to the interviewer record of its signed-in identity.
C26_DashboardOnlyForInterviewer ==
    \A d \in Devices :
        DashboardShown(dvLoaded[d], dvUser[d], userData[d])
        => /\ userData[d].kind = "record"
           /\ userData[d].row.clerkId = dvUser[d].id
           /\ userData[d].row.role = "interviewer"

\* C27: a call returned by the lookup hook with isCallLoading false was
\* fetched for the hook's current id with its current handle.
C27_CallIsForCurrentIdAndHandle ==
    (lkMounted /\ call # <<>> /\ ~isCallLoading)
    => call = <<lkClient, lkId>>

\* C28: the identity id bound into a constructed handle is the identity
\* for which the handle's token was minted.
C28_HandleIdentityIsTokenIdentity ==
    \A w \in {"a", "b"} :
        tkHandle[w] # NoHandle
        => tkHandle[w].token = Token(tkHandle[w].id, tkSecrets[w])

\* C29: when token requests settle, a run waiting for its token whose
\* identity stays as it is ends with its handle published and the
\* descendants rendered inside the video context with it, or with the
\* failure notified; otherwise the run was torn down meanwhile.
C29_SettledEpochProgresses ==
    \A e \in Epochs :
        (runs[e].pc = "awaitToken")
        ~> \/ ~runs[e].mounted
           \/ /\ runs[e].pc = "published"
              /\ Render = "video" /\ CtxClient = e
           \/ /\ runs[e].pc \in {"caughtToken", "caughtConstruct"}
              /\ runs[e].toasts = 1

\* C29 witness: one run ended with the failure notified, a later one is
\* published and rendered inside the video context.
C29_Witness ==
    \E e, f \in Epochs :
        /\ runs[e].pc = "caughtToken" /\ runs[e].toasts = 1
        /\ runs[f].pc = "published" /\ runs[f].mounted
        /\ Render = "video" /\ CtxClient = f

\* C30: the "Upcoming Interviews" number is the number of interviews that
\* start strictly after now, and the upcoming list holds the earliest of
\* them, at most three, in ascending order of start time.
C30_UpcomingCountAndList ==
    LET future == {i \in 1..Len(interviews) : interviews[i].startTime > dashNow}
        shown == UpcomingInterviews(interviews, dashNow)
        ids == {shown[i].id : i \in 1..Len(shown)}
    IN /\ UpcomingCount(interviews, dashNow) = Cardinality(future)
       /\ Len(shown) = IF Cardinality(future) < 3 THEN Cardinality(future) ELSE 3
       /\ Cardinality(ids) = Len(shown)
       /\ \A i \in 1..Len(shown) :
              /\ shown[i].id \in future
              /\ shown[i] = interviews[shown[i].id]
       /\ \A i, j \in 1..Len(shown) :
              i < j => shown[i].startTime <= shown[j].startTime
       /\ \A k \in future \ ids : \A i \in 1..Len(shown) :
              shown[i].startTime <= interviews[k].startTime

\* The lookup hook mounted outside the video context, for the
\* specifications in which it does not take part.
LookIdle == LookInit /\ lkClient = 0 /\ lkId = 1

\* The directory with no record, for the specifications in which it does
\* not take part.
DirIdle == DirInit /\ table = {}

\* One pair of secret keys, for the specifications in which the token
\* provider does not take part.
TokIdle == TokInit /\ tkSecrets = [a |-> "s1", b |-> "s2"]

Init == ProvInit /\ ActInit /\ LookIdle /\ DirIdle /\ TokIdle /\ DashInit

InitLookup == ProvInit /\ ActInit /\ LookInit /\ DirIdle /\ TokIdle /\ DashInit

InitDirectory == ProvInit /\ ActInit /\ LookIdle /\ DirInit /\ TokIdle /\ DashInit

InitDashboard == ProvInit /\ ActInit /\ LookIdle /\ DirIdle /\ TokIdle /\ DashInit

InitToken == ProvInit /\ ActInit /\ LookIdle /\ DirIdle /\ TokInit /\ DashInit

SpecProvider == Init /\ [][ProvNext]_vars

\* Every token request settles, and the continuation of initClient then runs.
TokenSettles ==
    \A e \in Epochs :
        WF_vars(TokenResolve(e, FALSE) \/ TokenResolve(e, TRUE) \/ TokenReject(e))

SpecProviderFair == Init /\ [][ProvNext]_vars /\ TokenSettles

SpecActions == Init /\ [][ActNext]_vars

SpecLookup == InitLookup /\ [][LookNext]_vars

SpecDirectory == InitDirectory /\ [][DirNext]_vars

SpecToken == InitToken /\ [][TokNext]_vars

SpecDashboard == InitDashboard /\ [][DashNext]_vars
====
